---- MODULE Spec2Model ----
(***************************************************************************)
(* Model of kernel-experience-tools: the two builds of solve_volterra      *)
(* (solvers.cpp: solve_volterra_cpp, core.cpp: solve_volterra_batch) and   *)
(* the two builds of the projection scans (projection.cpp, core.cpp).      *)
(*                                                                         *)
(* A double is a pair <<n, d>>: the rational n/d in lowest terms (d > 0),  *)
(* or a non-finite value when d = 0: <<1,0>> = +inf, <<-1,0>> = -inf,      *)
(* <<0,0>> = NaN.  Arithmetic is exact on the finite values (rounding is   *)
(* not modelled) and follows IEEE-754 on the non-finite ones.              *)
(* Arrays are functions on 0..n-1, as indexed in the source.               *)
(***************************************************************************)
EXTENDS Integers, Sequences, FiniteSets, TLC

\* ------------------------------------------------------------------ bounds
\* Largest n_points / largest input length explored.
MaxPoints == 4
MaxLen == 3

\* --------------------------------------------------------- double arithmetic
Abs(n) == IF n < 0 THEN -n ELSE n
Sgn(n) == IF n < 0 THEN -1 ELSE IF n > 0 THEN 1 ELSE 0

RECURSIVE GCD(_, _)
GCD(a, b) == IF b = 0 THEN a ELSE GCD(b, a % b)

Norm(n, d) == LET g == GCD(Abs(n), d) IN <<n \div g, d \div g>>

R(n) == <<n, 1>>
NaN == <<0, 0>>
PosInf == <<1, 0>>
Zero == R(0)
Half == <<1, 2>>
One == R(1)

IsFinite(a) == a[2] # 0
IsNaN(a) == a = NaN

RNeg(a) == <<-a[1], a[2]>>

RAdd(a, b) ==
    IF IsFinite(a) /\ IsFinite(b)
    THEN LET g == GCD(a[2], b[2])
         IN  Norm(a[1] * (b[2] \div g) + b[1] * (a[2] \div g), (a[2] \div g) * b[2])
    ELSE IF IsFinite(b) THEN a
    ELSE IF IsFinite(a) THEN b
    ELSE IF a = b THEN a ELSE NaN

RSub(a, b) == RAdd(a, RNeg(b))

RMul(a, b) ==
    IF IsFinite(a) /\ IsFinite(b)
    THEN LET g1 == GCD(Abs(a[1]), b[2])
             g2 == GCD(Abs(b[1]), a[2])
         IN  Norm((a[1] \div g1) * (b[1] \div g2), (a[2] \div g2) * (b[2] \div g1))
    ELSE <<Sgn(a[1]) * Sgn(b[1]), 0>>

\* 1/b; the zero divisors of the source are conversions of an int, hence +0.0
RInv(b) ==
    IF IsNaN(b) THEN NaN
    ELSE IF ~IsFinite(b) THEN Zero
    ELSE IF b[1] = 0 THEN PosInf
    ELSE <<Sgn(b[1]) * b[2], Abs(b[1])>>

RDiv(a, b) == RMul(a, RInv(b))

\* a > b on doubles: false when either is NaN
RGt(a, b) ==
    IF IsNaN(a) \/ IsNaN(b) THEN FALSE
    ELSE IF ~IsFinite(a) /\ ~IsFinite(b) THEN a[1] > b[1]
    ELSE IF ~IsFinite(a) THEN a[1] > 0
    ELSE IF ~IsFinite(b) THEN b[1] < 0
    ELSE a[1] * b[2] > b[1] * a[2]

RLt(a, b) == RGt(b, a)

\* std::vector<double> v(n, 0.0)
ZeroVec(n) == [k \in 0..(n - 1) |-> Zero]

\* -------------------------------------------------------------- the solver
Variants == {"cpp", "batch"}

KernelSet == {"zero", "one", "lin"}
TMaxSet == {R(-1), R(0), R(1), R(3), PosInf}
X0Set == {R(-1), R(1), R(2)}
MethodSet == {"trapezoidal", "simpson", "euler"}
NPointsSet == (-1)..MaxPoints
RetDeltaSet == {-1, 0, 1}

VARIABLES
    kernel_func,  \* the caller's kernel: which function of the lag it computes
    ret_delta,    \* the caller's kernel on an array: length of its result minus length of its argument
    t_max, n_points, x0, method,     \* the arguments of the call
    pc,           \* per build: position in the function
    dt, t, x,     \* per build: the locals dt, t, x
    i,            \* per build: the loop variable of the outer loop in progress
    K_vals,       \* solve_volterra_cpp: K_vals[i][j]
    K_unique,     \* solve_volterra_batch: K_unique / K_ptr
    K_matrix,     \* solve_volterra_batch: K_matrix (flat, row-major)
    calls,        \* per build: the invocations of kernel_func so far, in order
    written,      \* per build: the indices of x assigned so far, in order
    err,          \* per build: the exception that left the function ("" if none)
    result        \* per build: the returned tuple <<t, x>> (<<>> if none)

    \* the projection scans
VARIABLES
    x_array,      \* the input array of the scan
    env_pc,       \* per build: position in fast_envelope
    env_i,        \* per build: the loop variable i
    current_max,  \* per build: the local current_max
    env_result,   \* per build: the local vector result
    env_reads,    \* per build: the indices of x read so far
    env_writes,   \* per build: the indices of result stored so far
    env_out       \* per build: the returned array

VARIABLES
    min_pc,       \* per build: position in monotonic_min
    min_i,        \* per build: the loop variable i
    current_min,  \* per build: the local current_min
    min_result,   \* per build: the local vector result
    min_reads,    \* per build: the indices of the input read so far
    min_writes,   \* per build: the indices of result stored so far
    min_out       \* per build: the returned array

min_vars == <<min_pc, min_i, current_min, min_result, min_reads, min_writes, min_out>>

VARIABLES
    fn_x0, lambda_param, return_complex,   \* the arguments of fast_n besides x
    fn_pc,        \* per build: position in fast_n
    fn_i,         \* per build: the loop variable i
    log_lambda,   \* per build: the local log_lambda
    fn_result,    \* per build: the local vector result
    fn_err,       \* per build: the exception that left the function ("" if none)
    fn_out        \* per build: the returned sequence

fastn_vars == <<fn_x0, lambda_param, return_complex, fn_pc, fn_i, log_lambda, fn_result, fn_err, fn_out>>

proj_vars == <<x_array, env_pc, env_i, current_max, env_result, env_reads, env_writes, env_out>>

Builds == {"projection", "core"}
EnvValues == {R(-2), R(-1), R(0), R(1), R(2)}

solver_vars == <<kernel_func, ret_delta, t_max, n_points, x0, method, pc, dt, t, x, i,
                 K_vals, K_unique, K_matrix, calls, written, err, result>>

inputs == <<kernel_func, ret_delta, t_max, n_points, x0, method>>

\* The exceptions of the source and the error classes they surface as.
InvalidArgument == "invalid_argument"
ShapeMismatch == "runtime_error: Kernel function must return array of same size as input"
LengthError == "length_error"

\* The caller's kernel on one lag.
kernel(tau) ==
    CASE kernel_func = "zero" -> Zero
      [] kernel_func = "one" -> One
      [] kernel_func = "lin" -> tau

\* The caller's kernel on an array of lags: element-wise, but a kernel that
\* breaks the contract returns ret_delta entries more (or fewer).
kernel_array(tau_array, n) ==
    [k \in 0..(n + ret_delta - 1) |-> IF k \in DOMAIN tau_array THEN kernel(tau_array[k]) ELSE Zero]

ScalarCall(tau) == [kind |-> "scalar", arg |-> <<tau>>]
BatchCall(tau_array) == [kind |-> "batch", arg |-> tau_array]

SolverInit ==
    /\ kernel_func \in KernelSet
    /\ ret_delta \in RetDeltaSet
    /\ t_max \in TMaxSet
    /\ n_points \in NPointsSet
    /\ x0 \in X0Set
    /\ method \in MethodSet
    /\ pc = [v \in Variants |-> "start"]
    /\ dt = [v \in Variants |-> Zero]
    /\ t = [v \in Variants |-> <<>>]
    /\ x = [v \in Variants |-> <<>>]
    /\ i = [v \in Variants |-> 0]
    /\ K_vals = <<>>
    /\ K_unique = <<>>
    /\ K_matrix = <<>>
    /\ calls = [v \in Variants |-> <<>>]
    /\ written = [v \in Variants |-> <<>>]
    /\ err = [v \in Variants |-> ""]
    /\ result = [v \in Variants |-> <<>>]

\* Mutant: the step of a grid that leaves out the endpoint, t_max / n_points.
step_size_per_point(tmax, n) == RDiv(tmax, R(n))

\* double dt = t_max / (n_points - 1)
step_size(tmax, n) == RDiv(tmax, R(n - 1))

\* for (i = 0; i < n_points; ++i) t[i] = i * dt
time_grid(n, d) == [k \in 0..(n - 1) |-> RMul(R(k), d)]

\* core.cpp lines 263-270: generate_time_grid
generate_time_grid(tmax, n) == [k \in 0..(n - 1) |-> RMul(R(k), RDiv(tmax, R(n - 1)))]

\* Grid and solution array, the same statements in both builds.
\* std::vector(n) throws length_error for n < 0; x[0] = x0 on an empty
\* vector is undefined behaviour: the process dies, or the store lands
\* outside the vector and the function goes on.
Setup(v, next) ==
    /\ pc[v] = "start"
    /\ UNCHANGED <<proj_vars, min_vars, fastn_vars, inputs, K_unique, K_matrix, calls, result>>
    /\ IF n_points < 0
       THEN /\ pc' = [pc EXCEPT ![v] = "error"]
            /\ err' = [err EXCEPT ![v] = LengthError]
            /\ UNCHANGED <<dt, t, x, written>>
       ELSE /\ dt' = [dt EXCEPT ![v] = step_size(t_max, n_points)]
            /\ t' = [t EXCEPT ![v] = time_grid(n_points, step_size(t_max, n_points))]
            /\ err' = err
            /\ IF n_points = 0
               THEN /\ x' = [x EXCEPT ![v] = ZeroVec(0)]
                    /\ written' = written
                    /\ \/ pc' = [pc EXCEPT ![v] = "crashed"]
                       \/ pc' = [pc EXCEPT ![v] = next]
               ELSE /\ x' = [x EXCEPT ![v] = [ZeroVec(n_points) EXCEPT ![0] = x0]]
                    /\ written' = [written EXCEPT ![v] = <<0>>]
                    /\ pc' = [pc EXCEPT ![v] = next]

\* ---- solvers.cpp: solve_volterra_cpp ------------------------------------
\* lines 33-45: grid, x, and the n_points empty rows of K_vals
cpp_Setup ==
    /\ Setup("cpp", IF n_points > 0 THEN "kernel" ELSE "solve")
    /\ K_vals' = IF n_points < 0 THEN K_vals ELSE [k \in 0..(n_points - 1) |-> <<>>]
    /\ i' = [i EXCEPT !["cpp"] = IF n_points > 0 THEN 0 ELSE 1]

\* lines 47-52: row r of K_vals, one kernel_func(tau) call per cell j = 0..r
cpp_kernel_row(r) == [j \in 0..r |-> kernel(RSub(t["cpp"][r], t["cpp"][j]))]

cpp_row_calls(r) == [c \in 1..(r + 1) |-> ScalarCall(RSub(t["cpp"][r], t["cpp"][c - 1]))]

cpp_KernelRow ==
    /\ pc["cpp"] = "kernel"
    /\ i["cpp"] < n_points
    /\ K_vals' = [K_vals EXCEPT ![i["cpp"]] = cpp_kernel_row(i["cpp"])]
    /\ calls' = [calls EXCEPT !["cpp"] = @ \o cpp_row_calls(i["cpp"])]
    /\ IF i["cpp"] + 1 < n_points
       THEN /\ i' = [i EXCEPT !["cpp"] = @ + 1]
            /\ pc' = pc
       ELSE /\ i' = [i EXCEPT !["cpp"] = 1]
            /\ pc' = [pc EXCEPT !["cpp"] = "solve"]
    /\ UNCHANGED <<proj_vars, min_vars, fastn_vars, inputs, dt, t, x, K_unique, K_matrix, written, err, result>>

\* lines 62 and 85: 0.5 for endpoints, 1.0 for interior points
cpp_weight(ii, j) == IF j = 0 \/ j = ii - 1 THEN Half ELSE One

\* lines 59-64 (and 83-87): the inner loop from j on, integral so far
RECURSIVE cpp_trapezoidal_loop(_, _, _, _, _, _)
cpp_trapezoidal_loop(K_row, xs, d, ii, j, integral) ==
    IF j < ii
    THEN cpp_trapezoidal_loop(K_row, xs, d, ii, j + 1,
             RAdd(integral, RMul(RMul(RMul(cpp_weight(ii, j), K_row[j]), xs[j]), d)))
    ELSE integral

cpp_trapezoidal_integral(K_row, xs, d, ii) == cpp_trapezoidal_loop(K_row, xs, d, ii, 0, Zero)

\* line 76: 4 for odd indices, 2 for even indices
cpp_simpson_weight(j) == IF j % 2 = 1 THEN R(4) ELSE R(2)

\* lines 74-78
RECURSIVE cpp_simpson_loop(_, _, _, _, _)
cpp_simpson_loop(K_row, xs, ii, j, integral) ==
    IF j < ii
    THEN cpp_simpson_loop(K_row, xs, ii, j + 1,
             RAdd(integral, RMul(RMul(cpp_simpson_weight(j), K_row[j]), xs[j])))
    ELSE integral

\* Mutant: the right endpoint term without its kernel factor.
cpp_simpson_integral_bare_endpoint(K_row, xs, d, ii) ==
    RMul(cpp_simpson_loop(K_row, xs, ii, 1,
             RAdd(RMul(K_row[0], xs[0]), xs[ii - 1])),
         RDiv(d, R(3)))

\* Mutant: the right endpoint term taken at x[i], the entry being computed.
cpp_simpson_integral_current_entry(K_row, xs, d, ii) ==
    RMul(cpp_simpson_loop(K_row, xs, ii, 1,
             RAdd(RMul(K_row[0], xs[0]), RMul(K_row[ii], xs[ii]))),
         RDiv(d, R(3)))

\* lines 73-79
cpp_simpson_integral(K_row, xs, d, ii) ==
    RMul(cpp_simpson_loop(K_row, xs, ii, 1,
             RAdd(RMul(K_row[0], xs[0]), RMul(K_row[ii], xs[ii - 1]))),
         RDiv(d, R(3)))

cpp_Store(integral) ==
    /\ x' = [x EXCEPT !["cpp"][i["cpp"]] = RSub(x0, integral)]
    /\ written' = [written EXCEPT !["cpp"] = Append(@, i["cpp"])]
    /\ i' = [i EXCEPT !["cpp"] = @ + 1]
    /\ UNCHANGED <<proj_vars, min_vars, fastn_vars, inputs, pc, dt, t, K_vals, K_unique, K_matrix, calls, err, result>>

\* lines 56-67: one iteration of the trapezoidal loop
cpp_Trapezoidal ==
    /\ pc["cpp"] = "solve"
    /\ method = "trapezoidal"
    /\ i["cpp"] < n_points
    /\ cpp_Store(cpp_trapezoidal_integral(K_vals[i["cpp"]], x["cpp"], dt["cpp"], i["cpp"]))

\* lines 68-91: one iteration of the Simpson loop
cpp_Simpson ==
    /\ pc["cpp"] = "solve"
    /\ method = "simpson"
    /\ i["cpp"] < n_points
    /\ IF i["cpp"] % 2 = 0
       THEN cpp_Store(cpp_simpson_integral(K_vals[i["cpp"]], x["cpp"], dt["cpp"], i["cpp"]))
       ELSE cpp_Store(cpp_trapezoidal_integral(K_vals[i["cpp"]], x["cpp"], dt["cpp"], i["cpp"]))

\* lines 92-94
cpp_UnknownMethod ==
    /\ pc["cpp"] = "solve"
    /\ method \notin {"trapezoidal", "simpson"}
    /\ pc' = [pc EXCEPT !["cpp"] = "error"]
    /\ err' = [err EXCEPT !["cpp"] = InvalidArgument]
    /\ UNCHANGED <<proj_vars, min_vars, fastn_vars, inputs, dt, t, x, i, K_vals, K_unique, K_matrix, calls, written, result>>

\* lines 97-100
cpp_Return ==
    /\ pc["cpp"] = "solve"
    /\ method \in {"trapezoidal", "simpson"}
    /\ i["cpp"] >= n_points
    /\ pc' = [pc EXCEPT !["cpp"] = "done"]
    /\ result' = [result EXCEPT !["cpp"] = <<t["cpp"], x["cpp"]>>]
    /\ UNCHANGED <<proj_vars, min_vars, fastn_vars, inputs, dt, t, x, i, K_vals, K_unique, K_matrix, calls, written, err>>

\* ---- core.cpp: solve_volterra_batch --------------------------------------
\* lines 87-95
batch_Setup ==
    /\ Setup("batch", "eval")
    /\ UNCHANGED <<K_vals, i>>

\* lines 100-103: unique_tau[k] = k * dt
unique_tau(n, d) == [k \in 0..(n - 1) |-> RMul(R(k), d)]

Size(a) == Cardinality(DOMAIN a)

\* Mutant: the kernel's answer passed on without the size check.
evaluate_kernel_batch_unchecked(tau_array) ==
    [thrown |-> "", value |-> kernel_array(tau_array, Size(tau_array))]

\* lines 45-63: one call of the kernel on the whole array, then the size check
evaluate_kernel_batch(tau_array) ==
    LET n == Size(tau_array)
        result_array == kernel_array(tau_array, n)
    IN  IF Size(result_array) # n
        THEN [thrown |-> ShapeMismatch, value |-> <<>>]
        ELSE [thrown |-> "", value |-> result_array]

\* lines 100-108
batch_EvalKernel ==
    /\ pc["batch"] = "eval"
    /\ LET tau_array == unique_tau(n_points, dt["batch"])
           r == evaluate_kernel_batch(tau_array)
       IN  /\ calls' = [calls EXCEPT !["batch"] = Append(@, BatchCall(tau_array))]
           /\ IF r.thrown # ""
              THEN /\ pc' = [pc EXCEPT !["batch"] = "error"]
                   /\ err' = [err EXCEPT !["batch"] = r.thrown]
                   /\ K_unique' = K_unique
              ELSE /\ pc' = [pc EXCEPT !["batch"] = "fill"]
                   /\ err' = err
                   /\ K_unique' = r.value
    /\ UNCHANGED <<proj_vars, min_vars, fastn_vars, inputs, dt, t, x, i, K_vals, K_matrix, written, result>>

\* lines 112-118: K_matrix[i * n_points + j] = K_ptr[i - j] for j <= i, else 0.0
batch_matrix(K_ptr, n) ==
    [c \in 0..(n * n - 1) |->
        IF c % n <= c \div n THEN K_ptr[(c \div n) - (c % n)] ELSE Zero]

batch_FillMatrix ==
    /\ pc["batch"] = "fill"
    /\ K_matrix' = batch_matrix(K_unique, n_points)
    /\ pc' = [pc EXCEPT !["batch"] = "solve"]
    /\ i' = [i EXCEPT !["batch"] = 1]
    /\ UNCHANGED <<proj_vars, min_vars, fastn_vars, inputs, dt, t, x, K_vals, K_unique, calls, written, err, result>>

\* line 125: K_row = &K_matrix[i * n_points]
batch_row(ii) == [j \in 0..(n_points - 1) |-> K_matrix[ii * n_points + j]]

\* lines 138-140: interior terms j = 1 .. i-2
RECURSIVE batch_interior_loop(_, _, _, _, _, _)
batch_interior_loop(K_row, xs, d, ii, j, integral) ==
    IF j < ii - 1
    THEN batch_interior_loop(K_row, xs, d, ii, j + 1,
             RAdd(integral, RMul(RMul(d, K_row[j]), xs[j])))
    ELSE integral

\* Mutant: the last term added without the i > 1 test, so that the single
\* term of i = 1 is counted twice.
batch_trapezoidal_integral_unguarded(K_row, xs, d, ii) ==
    LET first == RAdd(Zero, RMul(RMul(RMul(Half, d), K_row[0]), xs[0]))
        interior == batch_interior_loop(K_row, xs, d, ii, 1, first)
    IN  RAdd(interior, RMul(RMul(RMul(Half, d), K_row[ii - 1]), xs[ii - 1]))

\* lines 132-145
batch_trapezoidal_integral(K_row, xs, d, ii) ==
    LET first == RAdd(Zero, RMul(RMul(RMul(Half, d), K_row[0]), xs[0]))
        interior == batch_interior_loop(K_row, xs, d, ii, 1, first)
    IN  IF ii > 1
        THEN RAdd(interior, RMul(RMul(RMul(Half, d), K_row[ii - 1]), xs[ii - 1]))
        ELSE interior

\* lines 151-153: "simple rectangular rule"
RECURSIVE batch_rectangular_loop(_, _, _, _, _, _)
batch_rectangular_loop(K_row, xs, d, ii, j, integral) ==
    IF j < ii
    THEN batch_rectangular_loop(K_row, xs, d, ii, j + 1,
             RAdd(integral, RMul(RMul(d, K_row[j]), xs[j])))
    ELSE integral

batch_rectangular_integral(K_row, xs, d, ii) == batch_rectangular_loop(K_row, xs, d, ii, 0, Zero)

\* line 120
use_trapezoidal == method = "trapezoidal"

\* line 156
batch_Store(integral) ==
    /\ x' = [x EXCEPT !["batch"][i["batch"]] = RSub(x0, integral)]
    /\ written' = [written EXCEPT !["batch"] = Append(@, i["batch"])]
    /\ i' = [i EXCEPT !["batch"] = @ + 1]
    /\ UNCHANGED <<proj_vars, min_vars, fastn_vars, inputs, pc, dt, t, K_vals, K_unique, K_matrix, calls, err, result>>

\* lines 123-145, 156: one iteration of the main loop, trapezoidal branch
batch_Trapezoidal ==
    /\ pc["batch"] = "solve"
    /\ use_trapezoidal
    /\ i["batch"] < n_points
    /\ batch_Store(batch_trapezoidal_integral(batch_row(i["batch"]), x["batch"], dt["batch"], i["batch"]))

\* lines 123-126, 146-156: one iteration of the main loop, else branch
batch_Rectangular ==
    /\ pc["batch"] = "solve"
    /\ ~use_trapezoidal
    /\ i["batch"] < n_points
    /\ batch_Store(batch_rectangular_integral(batch_row(i["batch"]), x["batch"], dt["batch"], i["batch"]))

\* lines 160-163
batch_Return ==
    /\ pc["batch"] = "solve"
    /\ i["batch"] >= n_points
    /\ pc' = [pc EXCEPT !["batch"] = "done"]
    /\ result' = [result EXCEPT !["batch"] = <<t["batch"], x["batch"]>>]
    /\ UNCHANGED <<proj_vars, min_vars, fastn_vars, inputs, dt, t, x, i, K_vals, K_unique, K_matrix, calls, written, err>>

\* ------------------------------------------------------ the envelope scans
\* Both builds of fast_envelope run on the same input array.
env_Start(b, seed, first) ==
    /\ env_pc[b] = "start"
    /\ env_result' = [env_result EXCEPT ![b] = [k \in DOMAIN x_array |-> IF k \in first THEN seed ELSE Zero]]
    /\ current_max' = [current_max EXCEPT ![b] = seed]
    /\ UNCHANGED <<solver_vars, min_vars, fastn_vars, x_array>>

\* lines 80-83 of projection.cpp, 226-229 of core.cpp: one iteration of the scan
env_Step(b) ==
    /\ env_pc[b] = "loop"
    /\ env_i[b] < Size(x_array)
    /\ LET m == IF RGt(x_array[env_i[b]], current_max[b]) THEN x_array[env_i[b]] ELSE current_max[b]
       IN  /\ current_max' = [current_max EXCEPT ![b] = m]
           /\ env_result' = [env_result EXCEPT ![b][env_i[b]] = m]
    /\ env_reads' = [env_reads EXCEPT ![b] = @ \cup {env_i[b]}]
    /\ env_writes' = [env_writes EXCEPT ![b] = @ \cup {env_i[b]}]
    /\ env_i' = [env_i EXCEPT ![b] = @ + 1]
    /\ UNCHANGED <<solver_vars, min_vars, fastn_vars, x_array, env_pc, env_out>>

env_Return(b) ==
    /\ env_pc[b] = "loop"
    /\ env_i[b] >= Size(x_array)
    /\ env_pc' = [env_pc EXCEPT ![b] = "done"]
    /\ env_out' = [env_out EXCEPT ![b] = env_result[b]]
    /\ UNCHANGED <<solver_vars, min_vars, fastn_vars, x_array, env_i, current_max, env_result, env_reads, env_writes>>

\* ---- projection.cpp: fast_envelope
\* line 78: double current_max = 0.0
fast_envelope_seed == Zero

\* lines 71-79
fast_envelope_Start ==
    /\ env_Start("projection", fast_envelope_seed, {})
    /\ env_pc' = [env_pc EXCEPT !["projection"] = "loop"]
    /\ env_i' = [env_i EXCEPT !["projection"] = 0]
    /\ UNCHANGED <<env_reads, env_writes, env_out>>

fast_envelope_Step == env_Step("projection")

\* line 86
fast_envelope_Return == env_Return("projection")

\* ---- core.cpp: fast_envelope_vectorized
\* lines 218-225: current_max = x[0]; result[0] = current_max.  On an empty
\* input both are out of bounds (undefined behaviour): the load yields
\* whatever lies there and the store may end the process.
fast_envelope_vectorized_Start ==
    /\ env_reads' = [env_reads EXCEPT !["core"] = {0}]
    /\ env_writes' = [env_writes EXCEPT !["core"] = {0}]
    /\ env_i' = [env_i EXCEPT !["core"] = 1]
    /\ env_out' = env_out
    /\ IF Size(x_array) > 0
       THEN /\ env_Start("core", x_array[0], {0})
            /\ env_pc' = [env_pc EXCEPT !["core"] = "loop"]
       ELSE \E garbage \in EnvValues \cup {NaN} :
               /\ env_Start("core", garbage, {0})
               /\ \/ env_pc' = [env_pc EXCEPT !["core"] = "crashed"]
                  \/ env_pc' = [env_pc EXCEPT !["core"] = "loop"]

fast_envelope_vectorized_Step == env_Step("core")

\* line 232
fast_envelope_vectorized_Return == env_Return("core")

\* ------------------------------------------------- the monotonic_min scans
\* Both builds of monotonic_min run on the same input array (n_array in the
\* source).  current_min = n[0] on an empty input is an out-of-bounds load
\* (undefined behaviour): it yields whatever lies there or ends the process;
\* so may the store result[0] = current_min of the core.cpp build.
min_Start(b, first, from) ==
    /\ min_pc[b] = "start"
    /\ min_reads' = [min_reads EXCEPT ![b] = {0}]
    /\ min_writes' = [min_writes EXCEPT ![b] = first]
    /\ min_i' = [min_i EXCEPT ![b] = from]
    /\ IF Size(x_array) > 0
       THEN /\ current_min' = [current_min EXCEPT ![b] = x_array[0]]
            /\ min_result' = [min_result EXCEPT ![b] =
                   [k \in DOMAIN x_array |-> IF k \in first THEN x_array[0] ELSE Zero]]
            /\ min_pc' = [min_pc EXCEPT ![b] = "loop"]
       ELSE \E garbage \in EnvValues \cup {NaN} :
               /\ current_min' = [current_min EXCEPT ![b] = garbage]
               /\ min_result' = [min_result EXCEPT ![b] = ZeroVec(0)]
               /\ \/ min_pc' = [min_pc EXCEPT ![b] = "crashed"]
                  \/ min_pc' = [min_pc EXCEPT ![b] = "loop"]
    /\ UNCHANGED <<solver_vars, proj_vars, fastn_vars, min_out>>

\* Mutant: the comparison of the envelope scan, n[i] > current_min.
min_next_greater(ni, cur) == IF RGt(ni, cur) THEN ni ELSE cur

\* lines 102-104 of projection.cpp, 250-252 of core.cpp
min_next(ni, cur) == IF RLt(ni, cur) THEN ni ELSE cur

\* lines 101-106 of projection.cpp, 249-254 of core.cpp: one iteration of the scan
min_Step(b) ==
    /\ min_pc[b] = "loop"
    /\ min_i[b] < Size(x_array)
    /\ LET m == min_next(x_array[min_i[b]], current_min[b])
       IN  /\ current_min' = [current_min EXCEPT ![b] = m]
           /\ min_result' = [min_result EXCEPT ![b][min_i[b]] = m]
    /\ min_reads' = [min_reads EXCEPT ![b] = @ \cup {min_i[b]}]
    /\ min_writes' = [min_writes EXCEPT ![b] = @ \cup {min_i[b]}]
    /\ min_i' = [min_i EXCEPT ![b] = @ + 1]
    /\ UNCHANGED <<solver_vars, proj_vars, fastn_vars, min_pc, min_out>>

min_Return(b) ==
    /\ min_pc[b] = "loop"
    /\ min_i[b] >= Size(x_array)
    /\ min_pc' = [min_pc EXCEPT ![b] = "done"]
    /\ min_out' = [min_out EXCEPT ![b] = min_result[b]]
    /\ UNCHANGED <<solver_vars, proj_vars, fastn_vars, min_i, current_min, min_result, min_reads, min_writes>>

\* ---- projection.cpp: fast_monotonic_min
\* lines 95-101: current_min = n[0], the loop starts at i = 0
fast_monotonic_min_Start == min_Start("projection", {}, 0)

fast_monotonic_min_Step == min_Step("projection")

\* line 108
fast_monotonic_min_Return == min_Return("projection")

\* ---- core.cpp: monotonic_min_vectorized
\* lines 242-249: current_min = n[0]; result[0] = current_min; the loop starts at i = 1
monotonic_min_vectorized_Start == min_Start("core", {0}, 1)

monotonic_min_vectorized_Step == min_Step("core")

\* line 256
monotonic_min_vectorized_Return == min_Return("core")

\* ------------------------------------------------------------------ fast_n
\* Logarithms are kept symbolic.  A value of fast_n is a triple <<tag, a, b>>:
\*   <<"num", v, 0>>      the double v
\*   <<"log", a, 0>>      log(a), a finite, positive, not 1
\*   <<"pi", 0, 0>>       M_PI
\*   <<"logquot", a, b>>  log(a) / log(b)
\*   <<"piquot", 0, b>>   M_PI / log(b)
LNum(v) == <<"num", v, Zero>>
LLog(a) == <<"log", a, Zero>>
LPi == <<"pi", Zero, Zero>>

\* 1e-12, written <<mantissa, -exponent>>: its denominator is beyond the
\* integers of the checker, and it only ever is the argument of log.
min_ratio == <<1, -12>>

NegInf == <<-1, 0>>
RAbs(a) == <<Abs(a[1]), a[2]>>
RGe(a, b) == ~IsNaN(a) /\ ~IsNaN(b) /\ ~RGt(b, a)

\* std::log on a double
Log(a) ==
    IF a = min_ratio THEN LLog(a)
    ELSE IF IsNaN(a) \/ RLt(a, Zero) THEN LNum(NaN)
    ELSE IF a = Zero THEN LNum(NegInf)
    ELSE IF a = PosInf THEN LNum(PosInf)
    ELSE IF a = One THEN LNum(Zero)
    ELSE LLog(a)

\* the sign of log(a) or M_PI
LSign(p) == IF p[1] = "pi" THEN 1 ELSE IF p[2] = min_ratio THEN -1 ELSE IF RGt(p[2], One) THEN 1 ELSE -1

\* p / q on doubles that are numbers, logarithms or M_PI.  The only numbers
\* std::log yields here are NaN, -inf, +inf and 0.
LDiv(p, q) ==
    IF p[1] = "num" /\ q[1] = "num" THEN LNum(RDiv(p[2], q[2]))
    ELSE IF p[1] = "num"
    THEN IF IsFinite(p[2]) THEN LNum(Zero)
         ELSE LNum(<<p[2][1] * LSign(q), 0>>)
    ELSE IF q[1] = "num"
    THEN IF IsNaN(q[2]) THEN LNum(NaN)
         ELSE IF ~IsFinite(q[2]) THEN LNum(Zero)
         ELSE LNum(<<LSign(p), 0>>)
    ELSE IF p[1] = "pi" THEN <<"piquot", Zero, q[2]>>
    ELSE IF p[2] = q[2] THEN LNum(One)
    ELSE <<"logquot", p[2], q[2]>>

\* x[i] / x0 clamped from below by 1e-12 (projection.cpp line 57, core.cpp
\* lines 203-204); a NaN stays.  Every positive double of the model exceeds 1e-12.
clamped_ratio(xi) ==
    LET ratio == RDiv(xi, fn_x0)
    IN  IF ~IsNaN(ratio) /\ ~RGt(ratio, Zero) THEN min_ratio ELSE ratio

FastNValues == {R(-1), R(0), R(2)}
FastNX0Set == {R(1), R(2)}
LambdaSet == {R(-1), R(0), Half, One, R(2)}

\* projection.cpp lines 35-41 and 55, core.cpp lines 180-187 and 196: the
\* logarithm of lambda is taken whatever lambda is; nothing is thrown.
fn_Start(b) ==
    /\ fn_pc[b] = "start"
    /\ log_lambda' = [log_lambda EXCEPT ![b] = Log(lambda_param)]
    /\ fn_result' = [fn_result EXCEPT ![b] =
           [k \in DOMAIN x_array |-> IF return_complex THEN <<LNum(Zero), LNum(Zero)>> ELSE LNum(Zero)]]
    /\ fn_i' = [fn_i EXCEPT ![b] = 0]
    /\ fn_pc' = [fn_pc EXCEPT ![b] = "loop"]
    /\ UNCHANGED <<solver_vars, proj_vars, min_vars, fn_x0, lambda_param, return_complex, fn_err, fn_out>>

fn_Store(b, value) ==
    /\ fn_pc[b] = "loop"
    /\ fn_i[b] < Size(x_array)
    /\ fn_result' = [fn_result EXCEPT ![b][fn_i[b]] = value]
    /\ fn_i' = [fn_i EXCEPT ![b] = @ + 1]
    /\ UNCHANGED <<solver_vars, proj_vars, min_vars, fn_x0, lambda_param, return_complex,
                   fn_pc, log_lambda, fn_err, fn_out>>

fn_Return(b) ==
    /\ fn_pc[b] = "loop"
    /\ fn_i[b] >= Size(x_array)
    /\ fn_pc' = [fn_pc EXCEPT ![b] = "done"]
    /\ fn_out' = [fn_out EXCEPT ![b] = fn_result[b]]
    /\ UNCHANGED <<solver_vars, proj_vars, min_vars, fn_x0, lambda_param, return_complex,
                   fn_i, log_lambda, fn_result, fn_err>>

\* ---- projection.cpp: fast_n_computation
fast_n_computation_Start == fn_Start("projection")

\* lines 43-51: ln|r| / log_lambda and arg(r) / log_lambda, arg(r) = 0 for r >= 0, else M_PI
fast_n_computation_complex(xi, loglam) ==
    LET ratio_real == RDiv(xi, fn_x0)
        ratio_abs == RAbs(ratio_real)
        ratio_angle == IF RGe(ratio_real, Zero) THEN LNum(Zero) ELSE LPi
    IN  <<LDiv(Log(ratio_abs), loglam), LDiv(ratio_angle, loglam)>>

\* lines 57-58
fast_n_computation_real(xi, loglam) == LDiv(Log(clamped_ratio(xi)), loglam)

\* lines 42-52 and 56-59: one iteration of either loop
fast_n_computation_Step ==
    fn_Store("projection",
        IF return_complex
        THEN fast_n_computation_complex(x_array[fn_i["projection"]], log_lambda["projection"])
        ELSE fast_n_computation_real(x_array[fn_i["projection"]], log_lambda["projection"]))

\* lines 53 and 60
fast_n_computation_Return == fn_Return("projection")

\* ---- core.cpp: fast_n_vectorized
fast_n_vectorized_Start == fn_Start("core")

\* lines 190-192: std::log of the complex (x[i]/x0, 0.0), times 1/log_lambda.
\* arg is atan2(0.0, re): 0 for re >= 0, M_PI for re < 0, NaN for NaN.
\* Multiplying by 1.0/log_lambda gives what dividing gives, rounding apart.
fast_n_vectorized_complex(xi, loglam) ==
    LET re == RDiv(xi, fn_x0)
        arg == IF IsNaN(re) THEN LNum(NaN) ELSE IF RGe(re, Zero) THEN LNum(Zero) ELSE LPi
    IN  <<LDiv(Log(RAbs(re)), loglam), LDiv(arg, loglam)>>

\* lines 203-205
fast_n_vectorized_real(xi, loglam) == LDiv(Log(clamped_ratio(xi)), loglam)

\* lines 189-193 and 202-206: one iteration of either loop
fast_n_vectorized_Step ==
    fn_Store("core",
        IF return_complex
        THEN fast_n_vectorized_complex(x_array[fn_i["core"]], log_lambda["core"])
        ELSE fast_n_vectorized_real(x_array[fn_i["core"]], log_lambda["core"]))

\* lines 194 and 207
fast_n_vectorized_Return == fn_Return("core")

vars == <<solver_vars, proj_vars, min_vars, fastn_vars>>

\* No solve in progress / no scan in progress.
SolverIdle ==
    /\ kernel_func = "zero" /\ ret_delta = 0 /\ t_max = One /\ n_points = 2
    /\ x0 = One /\ method = "trapezoidal"
    /\ pc = [v \in Variants |-> "idle"]
    /\ dt = [v \in Variants |-> Zero]
    /\ t = [v \in Variants |-> <<>>]
    /\ x = [v \in Variants |-> <<>>]
    /\ i = [v \in Variants |-> 0]
    /\ K_vals = <<>> /\ K_unique = <<>> /\ K_matrix = <<>>
    /\ calls = [v \in Variants |-> <<>>]
    /\ written = [v \in Variants |-> <<>>]
    /\ err = [v \in Variants |-> ""]
    /\ result = [v \in Variants |-> <<>>]

FastNIdle ==
    /\ fn_x0 = One /\ lambda_param = R(2) /\ return_complex = FALSE
    /\ fn_pc = [b \in Builds |-> "idle"]
    /\ fn_i = [b \in Builds |-> 0]
    /\ log_lambda = [b \in Builds |-> LNum(Zero)]
    /\ fn_result = [b \in Builds |-> <<>>]
    /\ fn_err = [b \in Builds |-> ""]
    /\ fn_out = [b \in Builds |-> <<>>]

EnvIdle ==
    /\ env_pc = [b \in Builds |-> "idle"]
    /\ env_i = [b \in Builds |-> 0]
    /\ current_max = [b \in Builds |-> Zero]
    /\ env_result = [b \in Builds |-> <<>>]
    /\ env_reads = [b \in Builds |-> {}]
    /\ env_writes = [b \in Builds |-> {}]
    /\ env_out = [b \in Builds |-> <<>>]

ProjIdle ==
    /\ x_array = <<>>
    /\ env_pc = [b \in Builds |-> "idle"]
    /\ env_i = [b \in Builds |-> 0]
    /\ current_max = [b \in Builds |-> Zero]
    /\ env_result = [b \in Builds |-> <<>>]
    /\ env_reads = [b \in Builds |-> {}]
    /\ env_writes = [b \in Builds |-> {}]
    /\ env_out = [b \in Builds |-> <<>>]

MinIdle ==
    /\ min_pc = [b \in Builds |-> "idle"]
    /\ min_i = [b \in Builds |-> 0]
    /\ current_min = [b \in Builds |-> Zero]
    /\ min_result = [b \in Builds |-> <<>>]
    /\ min_reads = [b \in Builds |-> {}]
    /\ min_writes = [b \in Builds |-> {}]
    /\ min_out = [b \in Builds |-> <<>>]

\* One scan is called, in both builds, on one input array: fast_envelope or
\* monotonic_min.
ProjInit ==
    /\ SolverIdle
    /\ FastNIdle
    /\ x_array \in UNION {[0..(n - 1) -> EnvValues] : n \in 0..MaxLen}
    /\ \E scan \in {"fast_envelope", "monotonic_min"} :
          /\ env_pc = [b \in Builds |-> IF scan = "fast_envelope" THEN "start" ELSE "idle"]
          /\ min_pc = [b \in Builds |-> IF scan = "monotonic_min" THEN "start" ELSE "idle"]
    /\ min_i = [b \in Builds |-> 0]
    /\ current_min = [b \in Builds |-> Zero]
    /\ min_result = [b \in Builds |-> <<>>]
    /\ min_reads = [b \in Builds |-> {}]
    /\ min_writes = [b \in Builds |-> {}]
    /\ min_out = [b \in Builds |-> <<>>]
    /\ env_i = [b \in Builds |-> 0]
    /\ current_max = [b \in Builds |-> Zero]
    /\ env_result = [b \in Builds |-> <<>>]
    /\ env_reads = [b \in Builds |-> {}]
    /\ env_writes = [b \in Builds |-> {}]
    /\ env_out = [b \in Builds |-> <<>>]

ProjNext ==
    \/ fast_envelope_Start
    \/ fast_envelope_Step
    \/ fast_envelope_Return
    \/ fast_envelope_vectorized_Start
    \/ fast_envelope_vectorized_Step
    \/ fast_envelope_vectorized_Return
    \/ fast_monotonic_min_Start
    \/ fast_monotonic_min_Step
    \/ fast_monotonic_min_Return
    \/ monotonic_min_vectorized_Start
    \/ monotonic_min_vectorized_Step
    \/ monotonic_min_vectorized_Return

ProjSpec == ProjInit /\ [][ProjNext]_vars

\* fast_n is called, in both builds, on the same arguments.
FastNInit ==
    /\ SolverIdle /\ EnvIdle /\ MinIdle
    /\ x_array \in UNION {[0..(n - 1) -> FastNValues] : n \in 0..MaxLen}
    /\ fn_x0 \in FastNX0Set
    /\ lambda_param \in LambdaSet
    /\ return_complex \in BOOLEAN
    /\ fn_pc = [b \in Builds |-> "start"]
    /\ fn_i = [b \in Builds |-> 0]
    /\ log_lambda = [b \in Builds |-> LNum(Zero)]
    /\ fn_result = [b \in Builds |-> <<>>]
    /\ fn_err = [b \in Builds |-> ""]
    /\ fn_out = [b \in Builds |-> <<>>]

FastNNext ==
    \/ fast_n_computation_Start
    \/ fast_n_computation_Step
    \/ fast_n_computation_Return
    \/ fast_n_vectorized_Start
    \/ fast_n_vectorized_Step
    \/ fast_n_vectorized_Return

FastNSpec == FastNInit /\ [][FastNNext]_vars

Init == SolverInit /\ ProjIdle /\ MinIdle /\ FastNIdle

Next ==
    \/ cpp_Setup
    \/ cpp_KernelRow
    \/ cpp_Trapezoidal
    \/ cpp_Simpson
    \/ cpp_UnknownMethod
    \/ cpp_Return
    \/ batch_Setup
    \/ batch_EvalKernel
    \/ batch_FillMatrix
    \/ batch_Trapezoidal
    \/ batch_Rectangular
    \/ batch_Return

Spec == Init /\ [][Next]_vars

\* ========================================================= the claims
\* What the claims speak of, computed from the arguments of the call alone.
Known == {"trapezoidal", "simpson"}
ValidGrid == n_points >= 2 /\ IsFinite(t_max) /\ RGt(t_max, Zero)
Step == RDiv(t_max, R(n_points - 1))
LagVector == [k \in 0..(n_points - 1) |-> RMul(R(k), Step)]
Written(v) == {written[v][k] : k \in 1..Len(written[v])}

\* sum of f[lo..hi], from the top down
RECURSIVE RSum(_, _, _)
RSum(f, lo, hi) == IF hi < lo THEN Zero ELSE RAdd(f[hi], RSum(f, lo, hi - 1))

\* x0 - dt * sum_{j<ii} w(ii,j) K((ii-j) dt) xs[j], w = 1/2 at j = 0 and j = ii-1, else 1
TrapezoidalValue(xs, ii) ==
    RSub(x0, RMul(Step, RSum([j \in 0..(ii - 1) |->
        RMul(RMul(IF j = 0 \/ j = ii - 1 THEN Half ELSE One, kernel(RMul(R(ii - j), Step))), xs[j])],
        0, ii - 1)))

\* x0 - dt/3 (K(ii dt) xs[0] + K(0) xs[ii-1] + sum_{j=1..ii-1} w_j K((ii-j) dt) xs[j]), w_j = 4 (odd j), 2 (even j)
SimpsonValue(xs, ii) ==
    RSub(x0, RMul(RDiv(Step, R(3)),
        RAdd(RAdd(RMul(kernel(RMul(R(ii), Step)), xs[0]), RMul(kernel(Zero), xs[ii - 1])),
             RSum([j \in 1..(ii - 1) |->
                 RMul(RMul(IF j % 2 = 1 THEN R(4) ELSE R(2), kernel(RMul(R(ii - j), Step))), xs[j])],
                 1, ii - 1))))

\* C1: in a call with n_points >= 2 (and a finite t_max > 0) that has returned, the kernel was invoked
\* exactly once, on the lag vector [0, dt, ..., (n_points-1) dt]; in both builds.
C1_KernelInvokedOnce ==
    \A v \in Variants :
        (ValidGrid /\ pc[v] = "done") =>
            /\ Len(calls[v]) = 1
            /\ calls[v][1] = BatchCall(LagVector)

\* C2: on the same arguments (n_points >= 2, finite t_max > 0, method trapezoidal or simpson) the
\* two builds return the same solution, index for index.
C2_BatchEqualsScalar ==
    (ValidGrid /\ method \in Known /\ pc["cpp"] = "done" /\ pc["batch"] = "done") =>
        \A k \in 0..(n_points - 1) : result["cpp"][2][k] = result["batch"][2][k]

\* C3: with method trapezoidal (and a finite t_max), every x[k], k >= 1, that
\* either build has stored equals x0 - dt * sum_{j<k} w(k,j) K((k-j) dt) x[j]
\* with the single term of k = 1 weighted 0.5 once; K = 1, t_max = 3,
\* n_points = 4, x0 = 1 returns [1, 1/2, 1/4, -1/8].
C3_TrapezoidalRule ==
    \A v \in Variants :
        (method = "trapezoidal" /\ IsFinite(t_max)) =>
            /\ \A k \in Written(v) \ {0} : x[v][k] = TrapezoidalValue(x[v], k)
            /\ (kernel_func = "one" /\ t_max = R(3) /\ n_points = 4 /\ x0 = One /\ pc[v] = "done") =>
                   result[v][2] = [k \in 0..3 |-> <<One, Half, <<1, 4>>, <<-1, 8>>>>[k + 1]]

C3_Witness ==
    /\ method = "trapezoidal" /\ kernel_func = "lin" /\ t_max = R(3) /\ n_points = 4
    /\ pc["cpp"] = "done" /\ pc["batch"] = "done"
    /\ Written("cpp") = 0..3 /\ Written("batch") = 0..3

\* C4: with method simpson (n_points >= 2, finite t_max > 0), in both builds, every stored
\* x[k] with k even, k >= 2, is the Simpson value and every stored x[k] with k
\* odd is the trapezoidal value.
C4_SimpsonRule ==
    \A v \in Variants :
        (method = "simpson" /\ ValidGrid) =>
            \A k \in Written(v) \ {0} :
                x[v][k] = IF k % 2 = 0 THEN SimpsonValue(x[v], k) ELSE TrapezoidalValue(x[v], k)

\* C5: a call with n_points < 2 or a t_max that is not finite and positive
\* leaves the function at once with an invalid-argument error (std::invalid_argument
\* and std::length_error both reach the caller as ValueError): no grid, no
\* kernel call, no result.
C5_RejectsBadGrid ==
    \A v \in Variants :
        ~ValidGrid =>
            /\ pc[v] \in {"start", "error"}
            /\ pc[v] = "error" => err[v] \in {InvalidArgument, LengthError}
            /\ calls[v] = <<>>
            /\ result[v] = <<>>

\* C6: a call (on a valid grid) with a method name other than trapezoidal /
\* simpson never returns a solution, in either build.
C6_RejectsUnknownMethod ==
    \A v \in Variants :
        (ValidGrid /\ method \notin Known) => (pc[v] # "done" /\ result[v] = <<>>)

\* C7: once the kernel has answered the batch call with an array of another
\* length than the lag vector, solve_volterra_batch has left with the
\* ShapeMismatch error: no x[k], k >= 1, was stored, nothing is returned and
\* the kernel is not called again.
KernelBrokeShape ==
    /\ calls["batch"] # <<>>
    /\ Size(kernel_array(calls["batch"][1].arg, n_points)) # n_points

C7_ShapeMismatchAborts ==
    KernelBrokeShape =>
        /\ pc["batch"] = "error"
        /\ err["batch"] = ShapeMismatch
        /\ Written("batch") \subseteq {0}
        /\ result["batch"] = <<>>
        /\ Len(calls["batch"]) = 1

C7_Witness ==
    /\ KernelBrokeShape /\ n_points = 3 /\ ret_delta = -1
    /\ pc["batch"] = "error" /\ x["batch"] = [ZeroVec(3) EXCEPT ![0] = x0]

\* C8: with the kernel 0 at every lag, n_points >= 2 and a finite t_max > 0,
\* every x[k] either build stores is x0, and what it returns under trapezoidal
\* or simpson is n_points times x0.
C8_ZeroKernel ==
    \A v \in Variants :
        (kernel_func = "zero" /\ ValidGrid /\ method \in Known) =>
            /\ \A k \in Written(v) : x[v][k] = x0
            /\ pc[v] = "done" => result[v][2] = [k \in 0..(n_points - 1) |-> x0]

C8_Witness ==
    /\ kernel_func = "zero" /\ method = "simpson" /\ n_points = 4 /\ t_max = R(3) /\ x0 = R(2)
    /\ pc["cpp"] = "done" /\ pc["batch"] = "done"

\* C9: for n_points >= 2 and a finite t_max > 0, what either build returns is a
\* grid and a solution of n_points entries each, grid[k] = k * t_max / (n_points-1)
\* (so grid[0] = 0, grid[n_points-1] = t_max, strictly increasing, uniform
\* step) and solution[0] = x0; generate_time_grid builds the same grid.
IsGrid(g) ==
    /\ DOMAIN g = 0..(n_points - 1)
    /\ \A k \in 0..(n_points - 1) : g[k] = RDiv(RMul(R(k), t_max), R(n_points - 1))
    /\ g[0] = Zero
    /\ g[n_points - 1] = t_max
    /\ \A k \in 0..(n_points - 2) : RLt(g[k], g[k + 1]) /\ RSub(g[k + 1], g[k]) = RSub(g[1], g[0])

C9_GridAndStart ==
    ValidGrid =>
        /\ IsGrid(generate_time_grid(t_max, n_points))
        /\ \A v \in Variants :
               pc[v] = "done" =>
                   /\ Len(result[v]) = 2
                   /\ IsGrid(result[v][1])
                   /\ DOMAIN result[v][2] = 0..(n_points - 1)
                   /\ result[v][2][0] = x0

C9_Witness ==
    /\ n_points = 4 /\ t_max = R(3) /\ method = "simpson" /\ kernel_func = "lin"
    /\ pc["cpp"] = "done" /\ pc["batch"] = "done"
    /\ result["batch"][1][3] = R(3)

\* C10: what either build of fast_envelope returns is the running maximum
\* seeded at 0.0: result[k] = max(0, x[0], ..., x[k]) for every k, hence
\* non-decreasing, >= 0, and 0.0 throughout on an all-negative input.
RECURSIVE RunningMax(_, _, _)
RunningMax(xs, k, seed) ==
    IF k < 0 THEN seed
    ELSE LET m == RunningMax(xs, k - 1, seed) IN IF RGt(xs[k], m) THEN xs[k] ELSE m

C10_EnvelopeSeededAtZero ==
    \A b \in Builds :
        env_pc[b] = "done" =>
            /\ DOMAIN env_out[b] = DOMAIN x_array
            /\ \A k \in DOMAIN x_array : env_out[b][k] = RunningMax(x_array, k, Zero)

\* C11: on a non-empty input, what either build of monotonic_min returns has
\* the length of the input and result[k] = min(x[0], ..., x[k]) for every k;
\* it is non-increasing, result[0] = x[0], and the two builds return the same.
MinOfPrefix(xs, k) == CHOOSE m \in {xs[j] : j \in 0..k} : \A j \in 0..k : ~RLt(xs[j], m)

C11_RunningMinimum ==
    Size(x_array) > 0 =>
        /\ \A b \in Builds :
               /\ min_pc[b] # "crashed"
               /\ min_pc[b] = "done" =>
                      /\ DOMAIN min_out[b] = DOMAIN x_array
                      /\ \A k \in DOMAIN x_array : min_out[b][k] = MinOfPrefix(x_array, k)
                      /\ \A k \in DOMAIN x_array : k > 0 => ~RGt(min_out[b][k], min_out[b][k - 1])
                      /\ min_out[b][0] = x_array[0]
        /\ (min_pc["projection"] = "done" /\ min_pc["core"] = "done") =>
               min_out["projection"] = min_out["core"]

C11_Witness ==
    /\ x_array = [k \in 0..2 |-> <<R(1), R(2), R(-1)>>[k + 1]]
    /\ min_pc["projection"] = "done" /\ min_pc["core"] = "done"
    /\ min_out["core"] = [k \in 0..2 |-> <<R(1), R(1), R(-1)>>[k + 1]]

\* C12: a call of fast_n with lambda <= 0 leaves the function at once with
\* InvalidArgument, in real and in complex mode and in both builds: it stores
\* no element and returns no sequence.
C12_RejectsNonPositiveLambda ==
    \A b \in Builds :
        ~RGt(lambda_param, Zero) =>
            /\ fn_pc[b] \in {"idle", "start", "error"}
            /\ fn_pc[b] = "error" => fn_err[b] = InvalidArgument
            /\ fn_out[b] = <<>>

\* The array xs as the computation of entry k may see it: entries 0..k-1.
\* Whatever is read of entry k or of a later one poisons the result.
Before(xs, k) == [j \in DOMAIN xs |-> IF j < k THEN xs[j] ELSE NaN]

\* The kernel values at lags 0..k steps; later lags poisoned.
LagsUpTo(K_ptr, k) == [l \in DOMAIN K_ptr |-> IF l <= k THEN K_ptr[l] ELSE NaN]

\* x0 minus the integral of the method in force, computed by build v for
\* entry k from x[0..k-1] and the kernel values at lags 0..k alone.
FromEarlier(v, k) ==
    LET xs == Before(x[v], k)
    IN  IF v = "cpp"
        THEN LET K_row == [j \in DOMAIN K_vals[k] |-> IF k - j \in 0..k THEN K_vals[k][j] ELSE NaN]
             IN  IF method = "simpson" /\ k % 2 = 0
                 THEN RSub(x0, cpp_simpson_integral(K_row, xs, dt[v], k))
                 ELSE RSub(x0, cpp_trapezoidal_integral(K_row, xs, dt[v], k))
        ELSE LET K_from_lags == batch_matrix(LagsUpTo(K_unique, k), n_points)
                 K_row == [j \in 0..(n_points - 1) |-> K_from_lags[k * n_points + j]]
             IN  IF method = "trapezoidal"
                 THEN RSub(x0, batch_trapezoidal_integral(K_row, xs, dt[v], k))
                 ELSE RSub(x0, batch_rectangular_integral(K_row, xs, dt[v], k))

\* One step of a solve, as the claim allows it, in build v.
SolveStepInOrder(v) ==
    LET k == Len(written[v])
    IN  /\ \A j \in Written(v) : j \in DOMAIN x'[v] /\ x'[v][j] = x[v][j]
        /\ written'[v] # written[v] =>
               /\ written'[v] = Append(written[v], k)
               /\ k < n_points
               /\ x'[v][k] = IF k = 0 THEN x0 ELSE FromEarlier(v, k)
        /\ written'[v] = written[v] =>
               \A j \in DOMAIN x[v] \cap DOMAIN x'[v] : x'[v][j] = x[v][j]

\* C13: in one solve, in both builds and for every method, x[0] = x0 is the
\* first store, then x[1], ..., x[n_points-1] are stored once each in
\* increasing index order; the value stored in x[i] is computed from
\* x[0..i-1] and the kernel values at lags 0..i steps alone (reading x[i], a
\* later entry or a later lag would change it), and no stored entry changes
\* afterwards.
C13_WrittenOnceInOrder == [][\A v \in Variants : SolveStepInOrder(v)]_vars

\* Both builds have stored x[0..3] with Simpson's rule on a finite grid and returned.
C13_Witness ==
    /\ method = "simpson" /\ kernel_func = "lin" /\ t_max = R(3) /\ n_points = 4
    /\ pc["cpp"] = "done" /\ pc["batch"] = "done"
    /\ written["cpp"] = <<0, 1, 2, 3>> /\ written["batch"] = <<0, 1, 2, 3>>
    /\ \A v \in Variants : \A k \in 0..3 : IsFinite(x[v][k])

\* C14: envelope and monotonic_min, in both builds, read the input and write
\* the result at indices 0..n-1 only, n the input length; on the empty input
\* they return the empty sequence, element 0 of the input not read and
\* element 0 of the result not written.
C14_IndicesInBounds ==
    \A b \in Builds :
        /\ env_reads[b] \subseteq DOMAIN x_array
        /\ env_writes[b] \subseteq DOMAIN x_array
        /\ min_reads[b] \subseteq DOMAIN x_array
        /\ min_writes[b] \subseteq DOMAIN x_array
        /\ env_pc[b] # "crashed" /\ min_pc[b] # "crashed"
        /\ Size(x_array) = 0 =>
               /\ env_pc[b] = "done" => env_out[b] = <<>>
               /\ min_pc[b] = "done" => min_out[b] = <<>>

====
